---- MODULE Spec2Model ----
(***************************************************************************)
(* mongoose-brzan-sequence (src/index.js): a Mongoose plugin that assigns  *)
(* a sequential, formatted value to a field of every newly created         *)
(* document, drawing the number from a counter collection through one      *)
(* findOneAndUpdate with an aggregation-pipeline update and upsert.        *)
(*                                                                         *)
(* The model covers the life of the documents of one schema to which the   *)
(* plugin has been applied (after initialize(connection) and               *)
(* schema.plugin(plugin, options)): the in-memory documents, the persisted *)
(* collection with its unique index on the sequence field, the counter     *)
(* collection with its unique compound index, and every suspension point   *)
(* of a save: built-in validation, the pre-save hook, the counter update,  *)
(* the prefix/suffix resolution and the write.                             *)
(*                                                                         *)
(* Spec         saves of the documents of one bound schema                 *)
(* SpecBind     calls of initialize and plugin, in any order               *)
(* SpecFormat   generateFormattedValue over the values it can be handed    *)
(* SpecKeys     Spec with other keys in the counter collection             *)
(* SpecResolver Spec with a prefix/suffix function that fails              *)
(***************************************************************************)
EXTENDS Integers, Sequences, FiniteSets, TLC

VARIABLES
    settings,   \* the parsed options the hook closes over (index.js:163)
    counters,   \* the _Counter collection: a sequence of counter documents
    docs,       \* the in-memory documents of the schema
    coll,       \* the persisted collection of the schema
    pc,         \* where each document's save() stands
    call,       \* the locals of each document's running save()
    hist,       \* per document: what its saves did so far (observation only)
    store0,     \* the counter collection as it was at start (observation only)
    Counter,    \* the module-level `let Counter` (index.js:12)
    models,     \* connection.models: the _Counter model each connection holds
    schema,     \* the schema handed to plugin: paths, indexes, pre-save hooks
    outcome     \* the last call of initialize or plugin and what it threw (observation only)

bindVars == <<Counter, models, schema, outcome>>

vars == <<settings, counters, docs, coll, pc, call, hist, store0, bindVars>>

(***************************************************************************)
(* Bounds of the model.                                                    *)
(***************************************************************************)
MaxDocs == 2        \* documents created concurrently
MaxAllocs == 1      \* allocations one document may make (retries of a failed creation)
MaxConns == 2       \* connections initialize may be handed

Docs == 1..MaxDocs

(***************************************************************************)
(* Values.  BSON / JS values carry their type, so that null, a missing     *)
(* field, undefined, numbers and strings stay distinct.                    *)
(***************************************************************************)
Num(n) == [type |-> "number", n |-> n]
Null == [type |-> "null", n |-> 0]
Missing == [type |-> "missing", n |-> 0]
Str(s) == [type |-> "string", s |-> s]
Undefined == [type |-> "undefined", s |-> ""]
Pending == [type |-> "pending", s |-> ""]      \* a promise not yet settled
NoResult == [type |-> "none", n |-> 0]          \* findOneAndUpdate not yet returned

pluginName == "MongooseSuperIncrement"

First(S) == CHOOSE i \in S : \A j \in S : i <= j

\* index.js:64-66, the shape of a counter document
CounterDoc(m, f, c) == [type |-> "object", model |-> m, field |-> f, count |-> c]

(***************************************************************************)
(* Option sets the settings are drawn from.  parseOptions accepts any      *)
(* number for startAt and incrementBy (index.js:28-39), negative ones      *)
(* included, and a string or a function for prefix and suffix              *)
(* (index.js:40-51).                                                       *)
(***************************************************************************)
StringOption(s) == [kind |-> "string", s |-> s]
FunctionOption == [kind |-> "function", s |-> ""]

\* index.js:88-104, the record parseOptions returns
Settings(sa, ib, pre, suf) ==
    [model |-> "MyModel", field |-> "customId", startAt |-> sa, incrementBy |-> ib,
     prefix |-> pre, suffix |-> suf]

Configurations ==
    { Settings(0, 1, StringOption(""), StringOption("")),        \* the defaults
      Settings(5, 1, StringOption("CT-"), StringOption("-US")),  \* README quick start
      Settings(5, 2, FunctionOption, FunctionOption),            \* computed per document
      Settings(0, -1, StringOption(""), StringOption("")) }      \* a negative step

\* The counter collection outlives the process: at start it holds no record
\* for the key, or a record left by an earlier run or seeded by hand.
InitialCounts == {Num(0), Num(3)}

(***************************************************************************)
(* Decimal text of a number, as a template literal prints it               *)
(* (index.js:120); null prints as "null".                                  *)
(***************************************************************************)
Digit(n) ==
    CASE n = 0 -> "0" [] n = 1 -> "1" [] n = 2 -> "2" [] n = 3 -> "3"
      [] n = 4 -> "4" [] n = 5 -> "5" [] n = 6 -> "6" [] n = 7 -> "7"
      [] n = 8 -> "8" [] n = 9 -> "9"

RECURSIVE Decimal(_)
Decimal(n) ==
    IF n < 0 THEN "-" \o Decimal(0 - n)
    ELSE IF n < 10 THEN Digit(n)
    ELSE Decimal(n \div 10) \o Digit(n % 10)

ToText(v) ==
    CASE v.type = "number" -> Decimal(v.n)
      [] v.type = "null" -> "null"
      [] v.type = "string" -> v.s
      [] OTHER -> "undefined"

CoalesceKeepsNullish(v) == ToText(v)

\* index.js:120, `${prefix ?? ''}${count}${suffix ?? ''}`
Coalesce(v) == IF v.type \in {"null", "undefined"} THEN "" ELSE ToText(v)

FormatValue(prefix, count, suffix) ==
    Str(Coalesce(prefix) \o ToText(count) \o Coalesce(suffix))

\* A prefix/suffix given as a function of the document (README.md:138-140):
\* here it answers the document's name followed by a dash.
ResolverFn(doc) == Str(doc.name \o "-")

ResolveOptionShared(opt, doc) ==
    IF opt.kind = "function" THEN ResolverFn([doc EXCEPT !.name = "a"]) ELSE Str(opt.s)

\* index.js:116-117, what each element of the Promise.all array resolves to
ResolveOption(opt, doc) ==
    IF opt.kind = "function" THEN ResolverFn(doc) ELSE Str(opt.s)

(***************************************************************************)
(* The counter update (index.js:131-150).                                  *)
(***************************************************************************)
\* index.js:131
Filter(s) == [model |-> s.model, field |-> s.field]

MatchesFieldOnly(filter) ==
    {i \in DOMAIN counters : counters[i].field = filter.field}

\* the documents of the collection the filter selects
Matches(filter) ==
    {i \in DOMAIN counters :
        counters[i].model = filter.model /\ counters[i].field = filter.field}

\* upsert: the document the pipeline is applied to when nothing matches is
\* built from the equality clauses of the filter; it has no count field.
BaseDocument(filter) == CounterDoc(filter.model, filter.field, Missing)

AddSubtracts(a, b) ==
    IF a.type = "number" /\ b.type = "number" THEN Num(a.n - b.n) ELSE Null

\* $add: null when an operand is null or missing
Add(a, b) ==
    IF a.type = "number" /\ b.type = "number" THEN Num(a.n + b.n) ELSE Null

\* index.js:140, { $eq: ['$$ROOT', null] }: $$ROOT is the document the stage
\* is applied to
RootIsNull(root) == root.type = "null"

CondCountZeroIsNew(root, s) ==
    IF root.count = Num(0) \/ root.count.type = "missing"
    THEN Num(s.startAt)
    ELSE Add(root.count, Num(s.incrementBy))

\* index.js:138-144, the $cond that computes count
CondCount(root, s) ==
    IF RootIsNull(root)
    THEN Num(s.startAt)
    ELSE Add(root.count, Num(s.incrementBy))

\* index.js:133-147, the $set stage applied to one document
UpdatePipeline(root, s) == CounterDoc(s.model, s.field, CondCount(root, s))

CounterIndexDropped == FALSE

\* index.js:70, the unique compound index on (model, field)
CounterIndexUnique == TRUE

(***************************************************************************)
(* The schema the plugin extended (index.js:171-189).                      *)
(***************************************************************************)
Others(d) == {e \in Docs \ {d} : coll[e].exists}

\* index.js:176-182, the field validator: no other document holds the value
Validator(d, value) == ~ \E e \in Others(d) : coll[e].seq = value

SeqIndexDropped == FALSE

\* index.js:174 and 189, the unique index on the sequence field
SeqIndexUnique == TRUE

\* the write is refused when the unique index finds the value elsewhere
DuplicateKey(d, value) ==
    SeqIndexUnique /\ \E e \in Others(d) : coll[e].seq = value

(***************************************************************************)
(* parseOptions (index.js:83-105) over the option definitions              *)
(* (index.js:15-52).  An options argument is a JS value; an object carries *)
(* its own properties as a function from the keys it has to their values.  *)
(***************************************************************************)
Fn == [type |-> "function", s |-> ""]
Object(props) == [type |-> "object", props |-> props]

\* index.js:15-52, the keys in the order Object.entries walks them
OptionKeys == <<"model", "field", "startAt", "incrementBy", "prefix", "suffix">>

\* index.js:17 and 23
Required(key) == key \in {"model", "field"}

\* index.js:29, 35, 41, 47; model and field have no default
Default(key) ==
    CASE key = "startAt" -> Num(0)
      [] key = "incrementBy" -> Num(1)
      [] key \in {"prefix", "suffix"} -> Str("")
      [] OTHER -> Undefined

FieldAcceptsId(v) == v.type = "string"

\* index.js:24, typeof v === 'string' && v !== '_id'
FieldValidate(v) == v.type = "string" /\ v # Str("_id")

\* index.js:18, 24, 30, 36, 42, 48, the validate function of each key
validate(key, v) ==
    CASE key = "model" -> v.type = "string"
      [] key = "field" -> FieldValidate(v)
      [] key \in {"startAt", "incrementBy"} -> v.type = "number"
      [] OTHER -> v.type \in {"string", "function"}

\* options[key] (index.js:94): undefined for a key the object does not have
Get(options, key) ==
    IF key \in DOMAIN options.props THEN options.props[key] ELSE Undefined

\* index.js:90-101, what the loop body throws for one key, if anything
KeyError(options, key) ==
    IF Required(key) /\ key \notin DOMAIN options.props THEN "is required"
    ELSE IF Get(options, key) # Undefined /\ ~validate(key, Get(options, key))
         THEN "is invalid"
         ELSE "none"

\* index.js:95-101, parsed[key]
ParsedValue(options, key) ==
    IF Get(options, key) # Undefined THEN Get(options, key) ELSE Default(key)

\* index.js:83-105: the first key that throws ends the call
parseOptions(options) ==
    IF options.type # "object"
    THEN [error |-> "ConfigurationError", key |-> "options"]
    ELSE LET bad == {i \in DOMAIN OptionKeys : KeyError(options, OptionKeys[i]) # "none"}
         IN IF bad # {}
            THEN [error |-> "ConfigurationError", key |-> OptionKeys[First(bad)]]
            ELSE [error |-> "none",
                  parsed |-> [k \in {OptionKeys[i] : i \in DOMAIN OptionKeys} |->
                                 ParsedValue(options, k)]]

\* what an application passes to schema.plugin for a configuration
TypedOption(opt) == IF opt.kind = "function" THEN Fn ELSE Str(opt.s)

OptionsOf(s) ==
    Object([model |-> Str(s.model), field |-> Str(s.field),
            startAt |-> Num(s.startAt), incrementBy |-> Num(s.incrementBy),
            prefix |-> TypedOption(s.prefix), suffix |-> TypedOption(s.suffix)])

WithField(o, f) == Object([o.props EXCEPT !.field = Str(f)])

QuickStart == OptionsOf(Settings(5, 1, StringOption("CT-"), StringOption("-US")))

\* the option arguments plugin is called with: the configurations, the same
\* on other fields ("serial" is free, "name" is declared by the schema,
\* "_id" is refused), and arguments parseOptions rejects for other reasons
OptionInputs ==
    {OptionsOf(s) : s \in Configurations}
      \cup {WithField(QuickStart, f) : f \in {"serial", "name", "_id"}}
      \cup {Object([field |-> Str("customId")]),
            Object([field |-> Str("_id")]),
            Object([model |-> Str("MyModel"), field |-> Str("customId"),
                    startAt |-> Str("5")]),
            Object([model |-> Str("MyModel"), field |-> Num(1)]),
            Null}

(***************************************************************************)
(* The schema as plugin sees and changes it (index.js:166-198).            *)
(***************************************************************************)
\* the schema of the README before the plugin is applied
NativeSchema == [paths |-> {"_id", "name"}, indexes |-> << >>, hooks |-> << >>]

\* index.js:166, schema.path(settings.field)
HasPath(sch, field) == field \in sch.paths

\* index.js:171-198: schema.add, schema.index, schema.pre('save', ...)
Extend(sch, parsed) ==
    [paths |-> sch.paths \cup {parsed.field.s},
     indexes |-> Append(sch.indexes, parsed.field.s),
     hooks |-> Append(sch.hooks, parsed)]

Connections == 1..MaxConns
NotAConnection == 0         \* initialize called with undefined
ConnectionArgs == Connections \cup {NotAConnection}
NotSet == 0                 \* Counter before any assignment (index.js:12)

Outcome(op, conn, options, error) ==
    [op |-> op, conn |-> conn, options |-> options, error |-> error]

(***************************************************************************)
(* Initial state: initialize and plugin have run; no document exists yet.  *)
(***************************************************************************)
InitialName(d) == IF d % 2 = 1 THEN "a" ELSE "b"
NewDoc(d) ==
    [isNew |-> TRUE, seq |-> Undefined, seqModified |-> FALSE,
     name |-> InitialName(d), dirty |-> FALSE]
NoDoc == [exists |-> FALSE, seq |-> Undefined]
NoCall == [count |-> NoResult, prefix |-> Pending, suffix |-> Pending]
NoHist == [allocs |-> 0, error |-> "none", count |-> NoResult]

Init ==
    /\ settings \in Configurations
    /\ \/ counters = << >>
       \/ \E c \in InitialCounts : counters = << CounterDoc("MyModel", "customId", c) >>
    /\ docs = [d \in Docs |-> NewDoc(d)]
    /\ coll = [d \in Docs |-> NoDoc]
    /\ pc = [d \in Docs |-> "idle"]
    /\ call = [d \in Docs |-> NoCall]
    /\ hist = [d \in Docs |-> NoHist]
    /\ store0 = counters
    /\ Counter = 1
    /\ models = [c \in Connections |-> IF c = 1 THEN 1 ELSE NotSet]
    /\ schema = Extend(NativeSchema, parseOptions(OptionsOf(settings)).parsed)
    /\ outcome = Outcome("plugin", NotAConnection, OptionsOf(settings), "none")

(***************************************************************************)
(* What the application does to a document: it may write the sequence      *)
(* field by hand and change other fields, then calls save().  The edits    *)
(* and the call are one synchronous stretch of the caller's code.          *)
(***************************************************************************)
\* values a caller may write into the sequence field by hand
ManualValues(d) == {Str("X")} \cup {coll[e].seq : e \in Others(d)}

\* doc[field] = v: the path is marked modified when the value changes
SetSeq(doc, v) ==
    IF v = doc.seq THEN doc ELSE [doc EXCEPT !.seq = v, !.seqModified = TRUE]

\* another field of a persisted document is changed, or left alone
SetOther(doc, touch) == IF touch THEN [doc EXCEPT !.dirty = TRUE] ELSE doc

OtherEdits(doc) == IF doc.isNew THEN {FALSE} ELSE BOOLEAN

\* doc.save() is called, after the edits
Save(d) ==
    /\ pc[d] = "idle"
    /\ docs[d].isNew => hist[d].allocs < MaxAllocs
    /\ \E v \in ManualValues(d) \cup {docs[d].seq}, touch \in OtherEdits(docs[d]) :
          docs' = [docs EXCEPT ![d] = SetOther(SetSeq(docs[d], v), touch)]
    /\ pc' = [pc EXCEPT ![d] = "validate"]
    /\ UNCHANGED <<settings, counters, coll, call, hist, store0, bindVars>>

\* save() rejects with err
Reject(d, err) ==
    /\ pc' = [pc EXCEPT ![d] = "rejected"]
    /\ hist' = [hist EXCEPT ![d].error = err]

\* the caller of save() handles the rejection
Caught(d) ==
    /\ pc[d] = "rejected"
    /\ pc' = [pc EXCEPT ![d] = "idle"]
    /\ call' = [call EXCEPT ![d] = NoCall]
    /\ hist' = [hist EXCEPT ![d].error = "none"]
    /\ UNCHANGED <<settings, counters, docs, coll, store0, bindVars>>

\* Mongoose validates before the pre('save') hooks of the schema run: the
\* field validator sees the value the caller left in the field, if any.
Validate(d) ==
    /\ pc[d] = "validate"
    /\ LET checked == /\ docs[d].seq # Undefined
                       /\ (docs[d].isNew \/ docs[d].seqModified)
       IN IF checked /\ ~Validator(d, docs[d].seq)
          THEN Reject(d, "ValidationError")
          ELSE /\ pc' = [pc EXCEPT ![d] = "hook"]
               /\ UNCHANGED hist
    /\ UNCHANGED <<settings, counters, docs, coll, call, store0, bindVars>>

GuardTripsNever(doc) == FALSE

GuardTripsOnNew(doc) == doc.seqModified

\* index.js:193, the guard of the pre-save hook
GuardTrips(doc) == doc.seqModified /\ ~doc.isNew

SkipsAllocationNever(doc) == FALSE

\* index.js:129, updateCounter returns at once for a document that is not new
SkipsAllocation(doc) == ~doc.isNew

\* index.js:191-198 up to the await of findOneAndUpdate (index.js:150)
PreSave(d) ==
    /\ pc[d] = "hook"
    /\ IF GuardTrips(docs[d])
       THEN Reject(d, "ImmutableField")
       ELSE /\ pc' = [pc EXCEPT ![d] = IF SkipsAllocation(docs[d]) THEN "write" ELSE "alloc"]
            /\ UNCHANGED hist
    /\ UNCHANGED <<settings, counters, docs, coll, call, store0, bindVars>>

(***************************************************************************)
(* Counter.collection.findOneAndUpdate(filter, updatePipeline,             *)
(* { returnDocument: 'after', upsert: true }) (index.js:149-150).          *)
(* The server finds and updates a matching document in one atomic step.    *)
(* When nothing matches it goes on to insert, and only the unique index    *)
(* stands between two such inserts.                                        *)
(***************************************************************************)
\* what Promise.all starts with (index.js:115-118): a string is there at
\* once, a function is called and its result awaited
Started(opt) == IF opt.kind = "function" THEN Pending ELSE Str(opt.s)

\* index.js:150-152: the call returns result.value (the document after the
\* update, as the driver's ModifyResult carries it), its count is read, and
\* generateFormattedValue starts resolving prefix and suffix
Returned(d, after) ==
    /\ pc' = [pc EXCEPT ![d] = "format"]
    /\ call' = [call EXCEPT ![d] = [count |-> after.count,
                                    prefix |-> Started(settings.prefix),
                                    suffix |-> Started(settings.suffix)]]
    /\ hist' = [hist EXCEPT ![d].allocs = @ + 1, ![d].count = after.count]

UpdateMatched(d) ==
    LET i == First(Matches(Filter(settings)))
        after == UpdatePipeline(counters[i], settings)
    IN /\ counters' = [counters EXCEPT ![i] = after]
       /\ Returned(d, after)

FindOneAndUpdate(d) ==
    /\ pc[d] = "alloc"
    /\ IF Matches(Filter(settings)) = {}
       THEN /\ pc' = [pc EXCEPT ![d] = "upsert"]
            /\ UNCHANGED <<counters, call, hist>>
       ELSE UpdateMatched(d)
    /\ UNCHANGED <<settings, docs, coll, store0, bindVars>>

\* the insert half of the upsert
UpsertInsert(d) ==
    /\ pc[d] = "upsert"
    /\ IF Matches(Filter(settings)) = {} \/ ~CounterIndexUnique
       THEN LET after == UpdatePipeline(BaseDocument(Filter(settings)), settings)
            IN /\ counters' = Append(counters, after)
               /\ Returned(d, after)
       ELSE \* duplicate key: the server retries as an update, or reports it
            \/ UpdateMatched(d)
            \/ /\ Reject(d, "StoreError")
               /\ UNCHANGED <<counters, call>>
    /\ UNCHANGED <<settings, docs, coll, store0, bindVars>>

StoreFailureSwallowed(d) ==
    /\ pc[d] \in {"alloc", "upsert"}
    /\ pc' = [pc EXCEPT ![d] = "write"]
    /\ UNCHANGED <<settings, counters, docs, coll, call, hist, store0, bindVars>>

StoreFailureRetried(d) ==
    /\ pc[d] = "upsert"
    /\ pc' = [pc EXCEPT ![d] = "alloc"]
    /\ UNCHANGED <<settings, counters, docs, coll, call, hist, store0, bindVars>>

\* the storage call fails: the promise awaited at index.js:150 rejects and
\* nothing catches it before save() does
StoreFailure(d) ==
    /\ pc[d] \in {"alloc", "upsert"}
    /\ Reject(d, "StoreError")
    /\ UNCHANGED <<settings, counters, docs, coll, call, store0, bindVars>>

(***************************************************************************)
(* generateFormattedValue (index.js:114-121) and the assignment            *)
(* (index.js:152).                                                         *)
(***************************************************************************)
ResolvePrefix(d) ==
    /\ pc[d] = "format"
    /\ call[d].prefix = Pending
    /\ call' = [call EXCEPT ![d].prefix = ResolveOption(settings.prefix, docs[d])]
    /\ UNCHANGED <<settings, counters, docs, coll, pc, hist, store0, bindVars>>

ResolveSuffix(d) ==
    /\ pc[d] = "format"
    /\ call[d].suffix = Pending
    /\ call' = [call EXCEPT ![d].suffix = ResolveOption(settings.suffix, docs[d])]
    /\ UNCHANGED <<settings, counters, docs, coll, pc, hist, store0, bindVars>>

ResolvedEither(c) == c.prefix # Pending \/ c.suffix # Pending

\* Promise.all has settled
Resolved(c) == c.prefix # Pending /\ c.suffix # Pending

\* index.js:152, doc[settings.field] = <formatted value>; the hook returns
Assign(d) ==
    /\ pc[d] = "format"
    /\ Resolved(call[d])
    /\ docs' = [docs EXCEPT
                  ![d].seq = FormatValue(call[d].prefix, call[d].count, call[d].suffix),
                  ![d].seqModified = TRUE]
    /\ pc' = [pc EXCEPT ![d] = "write"]
    /\ UNCHANGED <<settings, counters, coll, call, hist, store0, bindVars>>

(***************************************************************************)
(* The write that follows the pre-save hooks: an insert for a new          *)
(* document, an update of the modified paths otherwise.                    *)
(***************************************************************************)
Write(d) ==
    /\ pc[d] = "write"
    /\ IF docs[d].isNew /\ DuplicateKey(d, docs[d].seq)
       THEN /\ Reject(d, "DuplicateKey")
            /\ UNCHANGED <<docs, coll, call>>
       ELSE /\ coll' = [coll EXCEPT ![d] =
                          [exists |-> TRUE,
                           seq |-> IF docs[d].isNew THEN docs[d].seq ELSE coll[d].seq]]
            /\ docs' = [docs EXCEPT ![d].isNew = FALSE, ![d].seqModified = FALSE,
                                    ![d].dirty = FALSE]
            /\ pc' = [pc EXCEPT ![d] = "idle"]
            /\ call' = [call EXCEPT ![d] = NoCall]
            /\ UNCHANGED hist
    /\ UNCHANGED <<settings, counters, store0, bindVars>>

Next ==
    \E d \in Docs :
        \/ Save(d)
        \/ Validate(d)
        \/ PreSave(d)
        \/ FindOneAndUpdate(d)
        \/ UpsertInsert(d)
        \/ StoreFailure(d)
        \/ ResolvePrefix(d)
        \/ ResolveSuffix(d)
        \/ Assign(d)
        \/ Write(d)
        \/ Caught(d)

Spec == Init /\ [][Next]_vars

(***************************************************************************)
(* Setting up: initialize(connection) (index.js:58-76) and                 *)
(* plugin(schema, options) (index.js:160-199), called in any order and any *)
(* number of times, with good and bad arguments.                           *)
(***************************************************************************)
LookupNeverFinds(c) ==
    IF c \notin Connections THEN "TypeError" ELSE "MissingSchemaError"

\* index.js:60, connection.model('_Counter'): the model the connection
\* holds, MissingSchemaError when it holds none, and a TypeError when the
\* argument is no connection at all
Lookup(c) ==
    IF c \notin Connections THEN "TypeError"
    ELSE IF models[c] = NotSet THEN "MissingSchemaError"
    ELSE "found"

\* the model object index.js:71 creates is a new one
NewModel ==
    LET used == {models[c] : c \in Connections} \cup {Counter}
    IN 1 + CHOOSE n \in used : \A k \in used : k <= n

Initialize(c) ==
    /\ CASE Lookup(c) = "found" ->
              /\ Counter' = models[c]
              /\ models' = models
              /\ outcome' = Outcome("initialize", c, Undefined, "none")
         [] Lookup(c) = "MissingSchemaError" ->
              /\ models' = [models EXCEPT ![c] = NewModel]
              /\ Counter' = NewModel
              /\ outcome' = Outcome("initialize", c, Undefined, "none")
         [] OTHER ->    \* index.js:73 rethrows; Counter was not assigned
              /\ Counter' = Counter
              /\ models' = models
              /\ outcome' = Outcome("initialize", c, Undefined, Lookup(c))
    /\ UNCHANGED <<settings, counters, docs, coll, pc, call, hist, store0, schema>>

ChecksCounterLast(handle) == FALSE

\* index.js:161, if (!Counter)
NotInitialized(handle) == handle = NotSet

ConflictIgnored(sch, field) == FALSE

\* index.js:166, the field is already declared by the schema
Conflict(sch, field) == HasPath(sch, field)

Plugin(o) ==
    /\ LET p == parseOptions(o)
       IN IF NotInitialized(Counter)
          THEN /\ outcome' = Outcome("plugin", NotAConnection, o, "NotInitializedError")
               /\ schema' = schema
          ELSE IF p.error # "none"
          THEN /\ outcome' = Outcome("plugin", NotAConnection, o, p.error)
               /\ schema' = schema
          ELSE IF Conflict(schema, p.parsed.field.s)
          THEN /\ outcome' = Outcome("plugin", NotAConnection, o, "FieldConflictError")
               /\ schema' = schema
          ELSE /\ outcome' = Outcome("plugin", NotAConnection, o, "none")
               /\ schema' = Extend(schema, p.parsed)
    /\ UNCHANGED <<settings, counters, docs, coll, pc, call, hist, store0,
                   Counter, models>>

\* a fresh process: Counter is not set; the connection may already hold a
\* _Counter model; the schema is as the application declared it
InitBind ==
    /\ settings = Settings(0, 1, StringOption(""), StringOption(""))
    /\ \/ counters = << >>
       \/ \E c \in InitialCounts : counters = << CounterDoc("MyModel", "customId", c) >>
    /\ docs = [d \in Docs |-> NewDoc(d)]
    /\ coll = [d \in Docs |-> NoDoc]
    /\ pc = [d \in Docs |-> "idle"]
    /\ call = [d \in Docs |-> NoCall]
    /\ hist = [d \in Docs |-> NoHist]
    /\ store0 = counters
    /\ Counter = NotSet
    /\ models \in {[c \in Connections |-> NotSet],
                   [c \in Connections |-> IF c = 1 THEN 1 ELSE NotSet]}
    /\ schema = NativeSchema
    /\ outcome = Outcome("none", NotAConnection, Undefined, "none")

NextBind ==
    \/ \E c \in ConnectionArgs : Initialize(c)
    \/ \E o \in OptionInputs : Plugin(o)

SpecBind == InitBind /\ [][NextBind]_vars

(***************************************************************************)
(* generateFormattedValue and the assignment (index.js:114-121, 152) over  *)
(* the values they can be handed: a count the counter update returned, and *)
(* what a prefix and a suffix resolve to -- a string, or whatever a        *)
(* caller's function answers, null and undefined included.                 *)
(***************************************************************************)
MaxCount == 12

FormatCounts == {Num(n) : n \in -2..MaxCount}
ResolvedPrefixes == {Str("CT-"), Str(""), Null, Undefined}
ResolvedSuffixes == {Str("-US"), Str(""), Null, Undefined}

\* document 1 is being created: findOneAndUpdate has returned and
\* Promise.all has settled
InitFormat ==
    /\ settings = Settings(5, 2, FunctionOption, FunctionOption)
    /\ \E c \in FormatCounts, p \in ResolvedPrefixes, s \in ResolvedSuffixes :
          /\ counters = << CounterDoc("MyModel", "customId", c) >>
          /\ call = [d \in Docs |->
                       IF d = 1 THEN [count |-> c, prefix |-> p, suffix |-> s]
                                ELSE NoCall]
          /\ hist = [d \in Docs |->
                       IF d = 1 THEN [allocs |-> 1, error |-> "none", count |-> c]
                                ELSE NoHist]
    /\ docs = [d \in Docs |-> NewDoc(d)]
    /\ coll = [d \in Docs |-> NoDoc]
    /\ pc = [d \in Docs |-> IF d = 1 THEN "format" ELSE "idle"]
    /\ store0 = counters
    /\ Counter = 1
    /\ models = [c \in Connections |-> IF c = 1 THEN 1 ELSE NotSet]
    /\ schema = Extend(NativeSchema, parseOptions(OptionsOf(settings)).parsed)
    /\ outcome = Outcome("plugin", NotAConnection, OptionsOf(settings), "none")

NextFormat == \E d \in Docs : Assign(d)

SpecFormat == InitFormat /\ [][NextFormat]_vars

(***************************************************************************)
(* Several keys in one counter collection: besides the schema of the       *)
(* model, another schema is bound with the same field name under another   *)
(* model name, and a third key shares the model name under another field.  *)
(* The other binding's hooks run the same updateCounter (index.js:128-153) *)
(* with their own settings, interleaved with the saves of the model.       *)
(***************************************************************************)
MaxForeign == 1     \* allocations made through the other binding

OtherSettings ==
    [model |-> "Other", field |-> "customId", startAt |-> 0, incrementBy |-> 1,
     prefix |-> StringOption(""), suffix |-> StringOption("")]

OtherStart == Num(7)

ForeignRecords ==
    << CounterDoc("Other", "customId", OtherStart),
       CounterDoc("MyModel", "serial", Num(9)) >>

\* index.js:131-150 for a creation through the other binding; its record
\* exists, so the call is one atomic update
ForeignAllocation ==
    /\ Matches(Filter(OtherSettings)) # {}
    /\ LET i == First(Matches(Filter(OtherSettings)))
       IN /\ counters[i].count.type = "number"
          /\ counters[i].count.n < OtherStart.n + MaxForeign
          /\ counters' = [counters EXCEPT ![i] = UpdatePipeline(counters[i], OtherSettings)]
    /\ UNCHANGED <<settings, docs, coll, pc, call, hist, store0, bindVars>>

InitKeys ==
    /\ settings = Settings(5, 2, FunctionOption, FunctionOption)
    /\ \/ counters = ForeignRecords
       \/ counters = Append(ForeignRecords, CounterDoc("MyModel", "customId", Num(3)))
    /\ docs = [d \in Docs |-> NewDoc(d)]
    /\ coll = [d \in Docs |-> NoDoc]
    /\ pc = [d \in Docs |-> "idle"]
    /\ call = [d \in Docs |-> NoCall]
    /\ hist = [d \in Docs |-> NoHist]
    /\ store0 = counters
    /\ Counter = 1
    /\ models = [c \in Connections |-> IF c = 1 THEN 1 ELSE NotSet]
    /\ schema = Extend(NativeSchema, parseOptions(OptionsOf(settings)).parsed)
    /\ outcome = Outcome("plugin", NotAConnection, OptionsOf(settings), "none")

NextKeys == Next \/ ForeignAllocation

SpecKeys == InitKeys /\ [][NextKeys]_vars

(***************************************************************************)
(* A prefix/suffix function that fails: the caller's function throws, or   *)
(* the promise it returns rejects, for the documents it cannot name -- the *)
(* first one here -- and answers as before for the others.                 *)
(***************************************************************************)
Throwing == {1}

\* Promise.all (index.js:115) rejects: generateFormattedValue throws into
\* updateCounter, and index.js:152 never assigns
ResolveFailure(d) ==
    /\ pc[d] = "format"
    /\ call[d].prefix = Pending \/ call[d].suffix = Pending
    /\ Reject(d, "ResolverError")
    /\ UNCHANGED <<settings, counters, docs, coll, call, store0, bindVars>>

InitResolver ==
    /\ settings = Settings(5, 2, FunctionOption, FunctionOption)
    /\ \/ counters = << >>
       \/ \E c \in InitialCounts : counters = << CounterDoc("MyModel", "customId", c) >>
    /\ docs = [d \in Docs |-> NewDoc(d)]
    /\ coll = [d \in Docs |-> NoDoc]
    /\ pc = [d \in Docs |-> "idle"]
    /\ call = [d \in Docs |-> NoCall]
    /\ hist = [d \in Docs |-> NoHist]
    /\ store0 = counters
    /\ Counter = 1
    /\ models = [c \in Connections |-> IF c = 1 THEN 1 ELSE NotSet]
    /\ schema = Extend(NativeSchema, parseOptions(OptionsOf(settings)).parsed)
    /\ outcome = Outcome("plugin", NotAConnection, OptionsOf(settings), "none")

NextResolver ==
    \/ Next
    \/ \E d \in Throwing : ResolveFailure(d)

SpecResolver == InitResolver /\ [][NextResolver]_vars

(***************************************************************************)
(* Vocabulary of the properties.                                           *)
(***************************************************************************)
\* the step is a step of document d's save()
Acts(d) == pc'[d] # pc[d] \/ call'[d] # call[d]

\* d's save() received result.value from findOneAndUpdate in this step
Allocates(d) == pc[d] \in {"alloc", "upsert"} /\ pc'[d] = "format"

Created == {d \in Docs : coll[d].exists}

EmptyAtStart == store0 = << >>

\* every creation so far allocated once and was persisted
AllSucceeded ==
    \A d \in Docs : /\ pc[d] = "idle"
                     /\ hist[d].allocs = (IF coll[d].exists THEN 1 ELSE 0)

(***************************************************************************)
(* C1.  N concurrent creations against one counter that starts with no     *)
(* record, all of which succeed, receive pairwise distinct counts, and     *)
(* the counts are exactly startAt, startAt+incrementBy, ...,               *)
(* startAt+(N-1)*incrementBy.                                              *)
(* Fails: the record the upsert inserts has a null count, and null stays   *)
(* null under $add, so every creation receives null.                       *)
(***************************************************************************)
C1_CountsAreExactSet ==
    (EmptyAtStart /\ AllSucceeded) =>
        {hist[d].count : d \in Created} =
            {Num(settings.startAt + i * settings.incrementBy) :
                i \in 0..(Cardinality(Created) - 1)}

(***************************************************************************)
(* C2.  An allocation for a key without a counter record inserts a record  *)
(* whose count is startAt and returns startAt.                             *)
(* Fails: $$ROOT is the document built from the filter, never null, so     *)
(* the $cond takes its else branch and adds incrementBy to a missing       *)
(* count: the record is inserted with count null and null is returned.     *)
(***************************************************************************)
C2_FirstAllocationSeeds ==
    [][\A d \in Docs :
        (Allocates(d) /\ Matches(Filter(settings)) = {}) =>
            /\ call'[d].count = Num(settings.startAt)
            /\ counters'[Len(counters')].count = Num(settings.startAt)]_vars

(***************************************************************************)
(* C3.  An allocation for a key whose record exists with count c stores    *)
(* c + incrementBy and returns it; whether the record is seeded or         *)
(* advanced never depends on c: a record with count 0 is advanced, and     *)
(* startAt plays no part.                                                  *)
(***************************************************************************)
C3_ExistingRecordAdvances ==
    [][\A d \in Docs :
        (Allocates(d) /\ Matches(Filter(settings)) # {}) =>
            LET i == First(Matches(Filter(settings)))
                c == counters[i].count
            IN /\ Len(counters') = Len(counters)
               /\ call'[d].count = counters'[i].count
               /\ c.type = "number" =>
                     counters'[i].count = Num(c.n + settings.incrementBy)
               /\ c.type # "number" => counters'[i].count = Null]_vars

\* a record that stood at 0 was advanced to incrementBy although startAt is 5
C3_Witness ==
    /\ store0 # << >> /\ store0[1].count = Num(0)
    /\ settings.startAt = 5
    /\ \E d \in Docs : hist[d].count = Num(settings.incrementBy)

(***************************************************************************)
(* C4.  No step of the save of a document that is not new performs an      *)
(* allocation: the counter collection, the document's sequence field and   *)
(* its persisted value are what they were, whatever other field changed.   *)
(***************************************************************************)
C4_ResaveNeverAllocates ==
    [][\A d \in Docs :
        (Acts(d) /\ ~docs[d].isNew /\ pc[d] # "idle") =>
            /\ counters' = counters
            /\ docs'[d].seq = docs[d].seq
            /\ coll'[d].seq = coll[d].seq
            /\ hist'[d].allocs = hist[d].allocs
            /\ pc'[d] \notin {"alloc", "upsert", "format"}]_vars

\* a persisted document with another field changed is past its hook
C4_Witness ==
    \E d \in Docs : ~docs[d].isNew /\ docs[d].dirty /\ pc[d] = "write"

(***************************************************************************)
(* C5 as claimed.  Every save of a persisted document whose sequence       *)
(* field was modified ends in the immutable-field error of the pre-save    *)
(* hook.                                                                   *)
(* Fails: validation runs before the hook, and the field validator         *)
(* rejects a value another document holds before the hook is reached.      *)
(***************************************************************************)
C5_AlwaysImmutableFieldError ==
    [][\A d \in Docs :
        (Acts(d) /\ ~docs[d].isNew /\ docs[d].seqModified /\ pc'[d] = "rejected") =>
            hist'[d].error = "ImmutableField"]_vars

(***************************************************************************)
(* C5 as amended.  A save of a persisted document whose sequence field     *)
(* was modified fails before any allocation and writes nothing: the hook,  *)
(* whenever it runs, throws the immutable-field error; the only earlier    *)
(* exit is the validator's error, when another persisted document holds    *)
(* the value.  Counters, persisted values and the document are unchanged   *)
(* by every step of such a save, whichever save of the document it is.     *)
(***************************************************************************)
C5_ModifiedSaveRejected ==
    [][\A d \in Docs :
        /\ (Acts(d) /\ ~docs[d].isNew /\ docs[d].seqModified /\ pc[d] = "hook") =>
              /\ pc'[d] = "rejected"
              /\ hist'[d].error = "ImmutableField"
              /\ counters' = counters /\ coll' = coll /\ docs' = docs
        /\ (Acts(d) /\ ~docs[d].isNew /\ docs[d].seqModified /\ pc[d] = "validate") =>
              /\ \/ pc'[d] = "hook"
                 \/ /\ pc'[d] = "rejected"
                    /\ hist'[d].error = "ValidationError"
                    /\ \E e \in Others(d) : coll[e].seq = docs[d].seq
              /\ counters' = counters /\ coll' = coll /\ docs' = docs
        /\ (~docs'[d].isNew /\ docs'[d].seqModified) =>
              pc'[d] \in {"idle", "validate", "hook", "rejected"}]_vars

\* the hook has refused the save of a persisted document edited by hand
C5_Witness ==
    \E d \in Docs :
        /\ pc[d] = "rejected" /\ hist[d].error = "ImmutableField"
        /\ coll[d].exists /\ coll[d].seq # docs[d].seq

(***************************************************************************)
(* C6.  A failed findOneAndUpdate rejects the save: nothing is persisted,  *)
(* the sequence field is not assigned.  A document is inserted only with   *)
(* the value formatted from the count its own save's findOneAndUpdate      *)
(* returned: a string, never an absent value or one left from elsewhere.   *)
(***************************************************************************)
C6_FailedAllocationAborts ==
    [][\A d \in Docs :
        /\ (pc[d] \in {"alloc", "upsert"} /\ pc'[d] \notin {pc[d], "upsert", "format"}) =>
              /\ pc'[d] = "rejected" /\ hist'[d].error = "StoreError"
              /\ docs' = docs /\ coll' = coll
        /\ (~coll[d].exists /\ coll'[d].exists) =>
              /\ call[d].count # NoResult
              /\ call[d].count = hist[d].count
              /\ coll'[d].seq.type = "string"
              /\ coll'[d].seq =
                    FormatValue(ResolveOption(settings.prefix, docs[d]), call[d].count,
                                ResolveOption(settings.suffix, docs[d]))
        /\ (pc[d] = "idle" /\ pc'[d] # "idle") => call[d] = NoCall]_vars

\* a creation was rejected by the store: not persisted, field never assigned
C6_Witness ==
    \E d \in Docs :
        /\ pc[d] = "rejected" /\ hist[d].error = "StoreError"
        /\ ~coll[d].exists /\ docs[d].seq = Undefined

(***************************************************************************)
(* C7.  A new document reaches its write only after findOneAndUpdate has   *)
(* returned, prefix and suffix have both resolved and the formatted value  *)
(* is in the field; no document is persisted while its allocation or its   *)
(* prefix/suffix resolution is pending.                                    *)
(***************************************************************************)
C7_WriteAfterHookCompletes ==
    \A d \in Docs :
        /\ pc[d] \in {"alloc", "upsert", "format"} => ~coll[d].exists
        /\ (pc[d] = "write" /\ docs[d].isNew) =>
              /\ call[d].count # NoResult
              /\ call[d].prefix # Pending /\ call[d].suffix # Pending
              /\ docs[d].seq = FormatValue(call[d].prefix, call[d].count, call[d].suffix)
        /\ ~(coll[d].exists /\ docs[d].isNew)

\* a new document whose prefix and suffix are computed is ready to be written
C7_Witness ==
    \E d \in Docs :
        /\ pc[d] = "write" /\ docs[d].isNew
        /\ settings.prefix.kind = "function" /\ settings.suffix.kind = "function"

(***************************************************************************)
(* C8.  The counter collection never holds two records for one             *)
(* (model, field) pair, also when two allocations race on a new key.       *)
(***************************************************************************)
C8_OneRecordPerKey ==
    \A i, j \in DOMAIN counters :
        (counters[i].model = counters[j].model /\ counters[i].field = counters[j].field)
            => i = j

\* two upserts raced: one has inserted, the other has yet to try
C8_Witness ==
    /\ EmptyAtStart /\ Len(counters) = 1
    /\ \E d \in Docs : pc[d] = "upsert"

(***************************************************************************)
(* C9 as claimed.  Whatever startAt and incrementBy parseOptions accepted, *)
(* no step lowers the count of a counter record.                           *)
(* Fails: a negative incrementBy is accepted and lowers the count.         *)
(***************************************************************************)
CountNotLowered ==
    \A i \in DOMAIN counters :
        /\ i \in DOMAIN counters'
        /\ counters'[i].model = counters[i].model
        /\ counters'[i].field = counters[i].field
        /\ counters[i].count.type = "number" =>
              /\ counters'[i].count.type = "number"
              /\ counters'[i].count.n >= counters[i].count.n

C9_CountNeverLowers == [][CountNotLowered]_vars

(***************************************************************************)
(* C9 as amended.  With an incrementBy that is not negative, no step       *)
(* lowers the count of a counter record, and no record is removed.         *)
(***************************************************************************)
C9_NonNegativeStepNeverLowers ==
    [][settings.incrementBy >= 0 => CountNotLowered]_vars

\* a record found at start has been advanced by a positive step
C9_Witness ==
    /\ settings.incrementBy >= 0
    /\ store0 # << >> /\ counters[1].count.type = "number"
    /\ counters[1].count.n > store0[1].count.n

(***************************************************************************)
(* C10.  No two persisted documents hold the same sequence value; a        *)
(* creation whose value another persisted document holds is rejected and   *)
(* not persisted.                                                          *)
(***************************************************************************)
C10_SequenceValuesDistinct ==
    /\ \A d, e \in Created : d # e => coll[d].seq # coll[e].seq
    /\ \A d \in Docs :
          (pc[d] = "rejected" /\ hist[d].error = "DuplicateKey") => ~coll[d].exists

\* a creation was refused because its value is another document's
C10_Witness ==
    \E d \in Docs :
        /\ pc[d] = "rejected" /\ hist[d].error = "DuplicateKey"
        /\ \E e \in Created : coll[e].seq = docs[d].seq

(***************************************************************************)
(* Vocabulary of the properties of initialize and plugin.                  *)
(***************************************************************************)
\* the step is a call of plugin / of initialize
PluginCalled ==
    outcome'.op = "plugin" /\ (outcome' # outcome \/ schema' # schema)
InitializeCalled ==
    /\ outcome'.op = "initialize"
    /\ outcome' # outcome \/ Counter' # Counter \/ models' # models

\* the options are an object whose field is '_id'
FieldIsId(o) == o.type = "object" /\ Get(o, "field") = Str("_id")

(***************************************************************************)
(* C11.  As stated: every call of plugin with options whose field is '_id' *)
(* fails with a configuration error and leaves the schema as it was.       *)
(***************************************************************************)
C11_IdFieldConfigurationError ==
    [][(PluginCalled /\ FieldIsId(outcome'.options)) =>
          (outcome'.error = "ConfigurationError" /\ schema' = schema)]_vars

(***************************************************************************)
(* C11, amended.  A call of plugin with options whose field is '_id' fails *)
(* before any schema mutation: no field, index or pre-save hook is added.  *)
(* The failure is the configuration error once initialize has completed,   *)
(* and the not-initialized error, raised before the options are parsed, in *)
(* a process where it has not.                                             *)
(***************************************************************************)
C11_IdFieldFailsBeforeMutation ==
    [][(PluginCalled /\ FieldIsId(outcome'.options)) =>
          /\ schema' = schema
          /\ outcome'.error = IF Counter = NotSet THEN "NotInitializedError"
                                                  ELSE "ConfigurationError"]_vars

\* plugin was called with field '_id' after initialize and was refused for
\* its options
C11_Witness ==
    /\ Counter # NotSet
    /\ outcome.op = "plugin" /\ FieldIsId(outcome.options)
    /\ outcome.options = WithField(QuickStart, "_id")
    /\ outcome.error = "ConfigurationError"

\* the options name a field the schema declares
DeclaredField(o) ==
    /\ o.type = "object"
    /\ Get(o, "field").type = "string"
    /\ Get(o, "field").s \in schema.paths

\* the pre-save hooks and the indexes plugin registered for field f
HooksFor(f) == {i \in DOMAIN schema.hooks : schema.hooks[i].field.s = f}
IndexesFor(f) == {i \in DOMAIN schema.indexes : schema.indexes[i] = f}

(***************************************************************************)
(* C12.  As stated: once a call of plugin has succeeded, every further     *)
(* call that names a field the schema already declares fails with the      *)
(* field-conflict error and leaves the schema as it was.                   *)
(***************************************************************************)
C12_DeclaredFieldConflictError ==
    [][(PluginCalled /\ schema.hooks # << >> /\ DeclaredField(outcome'.options)) =>
          (outcome'.error = "FieldConflictError" /\ schema' = schema)]_vars

(***************************************************************************)
(* C12, amended.  A call of plugin that names a field the schema already   *)
(* declares (one added by an earlier successful call included) fails and   *)
(* leaves field definitions, indexes and pre-save hooks exactly as they    *)
(* were, so no field ever has more than one hook and one index from the    *)
(* plugin.  The failure is the field-conflict error when initialize has    *)
(* completed and parseOptions accepts the options; otherwise it is the     *)
(* earlier check's error: not-initialized, or the configuration error      *)
(* (which is what the declared field '_id' gets).                          *)
(***************************************************************************)
C12_DeclaredFieldLeavesBinding ==
    /\ [](\A f \in schema.paths :
             Cardinality(HooksFor(f)) <= 1 /\ Cardinality(IndexesFor(f)) <= 1)
    /\ [][(PluginCalled /\ DeclaredField(outcome'.options)) =>
            /\ schema' = schema
            /\ outcome'.error =
                 IF Counter = NotSet THEN "NotInitializedError"
                 ELSE IF parseOptions(outcome'.options).error # "none"
                      THEN "ConfigurationError"
                      ELSE "FieldConflictError"]_vars

\* a second bind to the field an earlier bind added was refused, and the
\* first binding stands alone
C12_Witness ==
    /\ outcome.op = "plugin" /\ outcome.error = "FieldConflictError"
    /\ Get(outcome.options, "field") = Str("customId")
    /\ Cardinality(HooksFor("customId")) = 1
    /\ Cardinality(IndexesFor("customId")) = 1

(***************************************************************************)
(* C13.  While no initialize has completed, Counter is unset and every     *)
(* call of plugin fails with the not-initialized error, whatever its       *)
(* options (they are not parsed), leaving the schema unchanged.  A call of *)
(* initialize that throws assigns nothing: the store is as unprepared as   *)
(* before.  A call that completes sets Counter, nothing unsets it, and     *)
(* from then on no call of plugin fails with the not-initialized error.    *)
(***************************************************************************)
C13_NotInitializedUntilInitialize ==
    [][/\ PluginCalled =>
            /\ (outcome'.error = "NotInitializedError") = (Counter = NotSet)
            /\ Counter = NotSet => schema' = schema
       /\ InitializeCalled =>
            /\ outcome'.error # "none" => (Counter' = Counter /\ models' = models)
            /\ outcome'.error = "none" => Counter' # NotSet
       /\ Counter # NotSet => Counter' # NotSet]_vars

\* plugin was called before any initialize completed, with options that
\* parseOptions would refuse, and failed for the missing initialize
C13_Witness ==
    /\ Counter = NotSet
    /\ outcome.op = "plugin" /\ outcome.options = Null
    /\ outcome.error = "NotInitializedError"
    /\ schema = NativeSchema

\* the decimal numerals of 0..20, written out
Numerals ==
    << "0", "1", "2", "3", "4", "5", "6", "7", "8", "9", "10",
       "11", "12", "13", "14", "15", "16", "17", "18", "19", "20" >>

TextOf(n) == IF n < 0 THEN "-" \o Numerals[1 - n] ELSE Numerals[n + 1]

\* what a resolved prefix or suffix contributes
Part(v) == IF v = Null \/ v = Undefined THEN "" ELSE v.s

(***************************************************************************)
(* C14.  The value assigned to the sequence field of a document being      *)
(* created is the resolved prefix, then the decimal text of the allocated  *)
(* count (a number, index.js:111), then the resolved suffix; a prefix or   *)
(* suffix that resolved to null or undefined contributes the empty string. *)
(* Count 7 with 'CT-' and '-US' gives 'CT-7-US', and with the default      *)
(* empty strings gives '7'.                                                *)
(***************************************************************************)
C14_ValueIsPrefixCountSuffix ==
    \A d \in Docs :
        (pc[d] = "write" /\ docs[d].isNew /\ call[d].count.type = "number") =>
            /\ docs[d].seq.type = "string"
            /\ docs[d].seq.s = Part(call[d].prefix) \o TextOf(call[d].count.n)
                                  \o Part(call[d].suffix)
            /\ call[d] = [count |-> Num(7), prefix |-> Str("CT-"), suffix |-> Str("-US")]
                  => docs[d].seq = Str("CT-7-US")
            /\ call[d] = [count |-> Num(7), prefix |-> Str(""), suffix |-> Str("")]
                  => docs[d].seq = Str("7")

\* count 7 was formatted with a prefix that resolved to null
C14_Witness ==
    \E d \in Docs :
        /\ pc[d] = "write" /\ docs[d].isNew
        /\ call[d] = [count |-> Num(7), prefix |-> Null, suffix |-> Str("-US")]
        /\ docs[d].seq = Str("7-US")

\* what the function of the README answers for document d
OwnPart(d) == InitialName(d) \o "-"

(***************************************************************************)
(* C15.  With a function prefix and suffix, each creation is handed the    *)
(* result of calling the function with the document being created: in any  *)
(* interleaving of creations, the prefix and suffix a save holds, the      *)
(* value it assigns and the value persisted are computed from that same    *)
(* document, never from another one.                                       *)
(***************************************************************************)
C15_ResolvedFromSameDocument ==
    \A d \in Docs :
        (settings.prefix.kind = "function" /\ settings.suffix.kind = "function") =>
            /\ call[d].prefix \in {Pending, Str(OwnPart(d))}
            /\ call[d].suffix \in {Pending, Str(OwnPart(d))}
            /\ (pc[d] = "write" /\ docs[d].isNew) =>
                  docs[d].seq.s = OwnPart(d) \o ToText(call[d].count) \o OwnPart(d)
            /\ coll[d].exists =>
                  coll[d].seq.s = OwnPart(d) \o ToText(hist[d].count) \o OwnPart(d)

\* two creations in flight at once, each holding the value made from its
\* own document
C15_Witness ==
    /\ settings.prefix.kind = "function"
    /\ \A d \in {1, 2} : pc[d] = "write" /\ docs[d].isNew
    /\ docs[1].seq.s = "a-" \o ToText(call[1].count) \o "a-"
    /\ docs[2].seq.s = "b-" \o ToText(call[2].count) \o "b-"

\* the records of the key of the model, and those of every other key
IsOwn(r) == r.model = settings.model /\ r.field = settings.field
IsForeign(r) == ~IsOwn(r)
Own(store) == SelectSeq(store, IsOwn)
Foreign(store) == SelectSeq(store, IsForeign)

(***************************************************************************)
(* C16.  An allocation for the key (model, field) writes only that key's   *)
(* record: the records of every other key are unchanged by it, and the     *)
(* record it leaves and the count it returns are computed from that key's  *)
(* record alone.  An allocation on another key leaves the key's record     *)
(* unchanged.  So the counts handed out for the key are the same whatever  *)
(* allocations on other keys are interleaved.                              *)
(***************************************************************************)
C16_OtherKeysUntouched ==
    [][/\ \A d \in Docs :
            Allocates(d) =>
               /\ Foreign(counters') = Foreign(counters)
               /\ Own(counters') =
                     << UpdatePipeline(IF Own(counters) = << >>
                                       THEN BaseDocument(Filter(settings))
                                       ELSE Own(counters)[1], settings) >>
               /\ call'[d].count = Own(counters')[1].count
       /\ (counters' # counters /\ ~ \E d \in Docs : Allocates(d)) =>
            /\ Own(counters') = Own(counters)
            /\ Len(Foreign(counters')) = Len(Foreign(counters))]_vars

\* the key's record advanced from 3 to 5 after the other binding had
\* advanced its own from 7 to 8; the third key's record is as it was
C16_Witness ==
    /\ store0 = Append(ForeignRecords, CounterDoc("MyModel", "customId", Num(3)))
    /\ counters = << CounterDoc("Other", "customId", Num(8)),
                     CounterDoc("MyModel", "serial", Num(9)),
                     CounterDoc("MyModel", "customId", Num(5)) >>
    /\ \E d \in Docs : hist[d].count = Num(5)

(***************************************************************************)
(* C17.  A save of a new document enters findOneAndUpdate once, from the   *)
(* pre-save hook, and receives at most one result.  When the call fails    *)
(* the save is rejected with the storage error: the hook does not call     *)
(* again, the counter collection is not written, and only the caller's     *)
(* next save() can start another call.  The counter collection changes     *)
(* only in the step in which some save receives its result.                *)
(***************************************************************************)
C17_OneCallNoRetry ==
    [][/\ \A d \in Docs :
            /\ (pc[d] = "hook" /\ docs[d].isNew /\ Acts(d)) => pc'[d] = "alloc"
            /\ (pc'[d] = "alloc" /\ pc[d] # "alloc") =>
                  (pc[d] = "hook" /\ docs[d].isNew /\ call[d].count = NoResult)
            /\ Allocates(d) =>
                  (call[d].count = NoResult /\ hist'[d].allocs = hist[d].allocs + 1)
            /\ (pc[d] \in {"alloc", "upsert"} /\ pc'[d] = "rejected") =>
                  (hist'[d].error = "StoreError" /\ counters' = counters)
            /\ (pc[d] \in {"format", "write", "rejected"} /\ Acts(d)) =>
                  (pc'[d] \notin {"hook", "alloc", "upsert"} /\ counters' = counters)
       /\ counters' # counters => \E d \in Docs : Allocates(d)]_vars

\* the upsert of one creation lost against another creation's insert and
\* the store reported it: the loser was rejected without an allocation
C17_Witness ==
    \E d \in Docs :
        /\ pc[d] = "rejected" /\ hist[d].error = "StoreError"
        /\ hist[d].allocs = 0 /\ call[d].count = NoResult
        /\ store0 = << >> /\ Len(counters) = 1

(***************************************************************************)
(* C18.  initialize is idempotent on a connection.  When the connection    *)
(* already holds the counter model, initialize takes that model and        *)
(* defines nothing; otherwise it defines it once.  However often it is     *)
(* called, Counter ends as the one model of the connection, and the        *)
(* counter records are not touched.  It fails only when the lookup fails   *)
(* for another reason than the model not being defined, and then changes   *)
(* nothing.                                                                *)
(***************************************************************************)
C18_InitializeIdempotent ==
    [][InitializeCalled =>
         LET c == outcome'.conn
         IN /\ counters' = counters
            /\ c \in Connections =>
                 /\ outcome'.error = "none"
                 /\ Counter' = models'[c]
                 /\ models[c] # NotSet => models' = models
                 /\ \A k \in Connections \ {c} : models'[k] = models[k]
            /\ c \notin Connections =>
                 /\ outcome'.error = "TypeError"
                 /\ Counter' = Counter /\ models' = models]_vars

\* initialize was called again on the connection whose model is in use,
\* after the plugin had been bound
C18_Witness ==
    /\ outcome.op = "initialize" /\ outcome.conn = 1 /\ outcome.error = "none"
    /\ Counter = models[1]
    /\ schema.hooks # << >>
    /\ counters # << >>

\* d is a new document whose sequence field already holds a value
Preset(d) == docs[d].isNew /\ docs[d].seq # Undefined

(***************************************************************************)
(* C19.  As stated: a save of a new document whose sequence field is       *)
(* already set is not stopped before its allocation -- validation passes   *)
(* it to the hook and the hook to findOneAndUpdate -- and the value        *)
(* formatted from the allocated count replaces the caller's.               *)
(***************************************************************************)
C19_PresetNewDocumentAllocates ==
    [][\A d \in Docs :
          Preset(d) =>
             /\ (pc[d] = "validate" /\ Acts(d)) => pc'[d] = "hook"
             /\ (pc[d] = "hook" /\ Acts(d)) => pc'[d] = "alloc"
             /\ (pc[d] = "format" /\ pc'[d] = "write") =>
                   docs'[d].seq = FormatValue(call[d].prefix, call[d].count, call[d].suffix)]_vars

(***************************************************************************)
(* C19, amended.  The immutability guard applies only to documents that    *)
(* are not new: a save of a new document whose sequence field the caller   *)
(* already set never fails with the immutable-field error.  Unless the     *)
(* field validator, which runs before the hook, refuses the value because  *)
(* another persisted document holds it (a validation error, no             *)
(* allocation), the hook goes on to one allocation, and the value          *)
(* formatted from the allocated count replaces the caller's before the     *)
(* document is persisted.                                                  *)
(***************************************************************************)
C19_PresetNewDocumentNotGuarded ==
    [][\A d \in Docs :
          Preset(d) =>
             /\ hist'[d].error # "ImmutableField"
             /\ (pc[d] = "validate" /\ Acts(d)) =>
                   IF \E e \in Created \ {d} : coll[e].seq = docs[d].seq
                   THEN /\ pc'[d] = "rejected" /\ hist'[d].error = "ValidationError"
                        /\ counters' = counters /\ hist'[d].allocs = hist[d].allocs
                   ELSE pc'[d] = "hook"
             /\ (pc[d] = "hook" /\ Acts(d)) => pc'[d] = "alloc"
             /\ Allocates(d) => call[d].count = NoResult
             /\ (pc[d] = "format" /\ pc'[d] = "write") =>
                   docs'[d].seq = FormatValue(call[d].prefix, call[d].count, call[d].suffix)
             /\ (~coll[d].exists /\ coll'[d].exists) =>
                   /\ call[d].count # NoResult
                   /\ coll'[d].seq = FormatValue(call[d].prefix, call[d].count, call[d].suffix)]_vars

\* the allocation of a new document returned while its field still holds
\* the value the caller wrote; the assignment is about to replace it
C19_Witness ==
    \E d \in Docs :
        /\ pc[d] = "format" /\ Resolved(call[d])
        /\ docs[d].isNew /\ docs[d].seq = Str("X")
        /\ call[d].count # NoResult /\ hist[d].error = "none"

\* d's creation failed after its findOneAndUpdate had returned
FailedAfterAllocation(d) ==
    /\ pc[d] = "rejected"
    /\ hist[d].error \in {"ResolverError", "DuplicateKey"}
    /\ call[d].count # NoResult

(***************************************************************************)
(* C20.  As stated: when a creation fails after its findOneAndUpdate has   *)
(* returned (a prefix or suffix resolver fails, or the write is refused),  *)
(* the counter record stays advanced, a resolver failure leaves the        *)
(* document as it was, and the count that was returned is handed to no     *)
(* other creation.                                                         *)
(***************************************************************************)
C20_FailedCreationLeavesGap ==
    /\ [](\A d \in Docs :
            FailedAfterAllocation(d) =>
               /\ Own(counters) # << >>
               /\ Own(counters) # Own(store0)
               /\ \A e \in Docs \ {d} : hist[e].count # call[d].count)
    /\ [][\A d \in Docs :
            (pc[d] = "format" /\ pc'[d] = "rejected") =>
               (docs' = docs /\ counters' = counters /\ coll' = coll)]_vars
====
